---- MODULE Spec2Model ----
(***************************************************************************)
(* A model of scripts/suggest-jsdoc.cjs: the diff locator                  *)
(* (getDiffPositions), and the orchestration of main / processFile with    *)
(* its three external calls (diff fetch, completion, review submission).   *)
(*                                                                         *)
(* Text is modelled at character level: a JavaScript string is a sequence  *)
(* of one-character strings, so that startsWith, the two regular           *)
(* expressions, substring and split('\n') are computed as the code         *)
(* computes them.  JavaScript indexes from 0, the model from 1.            *)
(***************************************************************************)
EXTENDS Integers, Sequences, FiniteSets, TLC

(***************************************************************************)
(* Strings                                                                 *)
(***************************************************************************)
NL == "\n"

Digits == {"0", "1", "2", "3", "4", "5", "6", "7", "8", "9"}

\* String.prototype.trim strips white space and line terminators
WhiteSpace == {" ", "\t", "\n", "\r"}

\* s.startsWith(p)
StartsWith(s, p) == Len(s) >= Len(p) /\ SubSeq(s, 1, Len(p)) = p

\* s.substring(i0) for the 0-based i0 = i - 1, i.e. the text from the 1-based i on
From(s, i) == SubSeq(s, i, Len(s))

RECURSIVE Split(_)
\* text.split('\n'): always at least one element, the last one is the text
\* after the last line feed (empty when the text ends with a line feed)
Split(text) ==
  IF \E i \in 1..Len(text) : text[i] = NL
    THEN LET i == CHOOSE k \in 1..Len(text) :
                    text[k] = NL /\ \A j \in 1..(k - 1) : text[j] # NL
         IN <<SubSeq(text, 1, i - 1)>> \o Split(From(text, i + 1))
    ELSE <<text>>

RECURSIVE Trim(_)
\* file.trim()
Trim(s) ==
  IF s = <<>> THEN s
  ELSE IF Head(s) \in WhiteSpace THEN Trim(Tail(s))
  ELSE IF s[Len(s)] \in WhiteSpace THEN Trim(SubSeq(s, 1, Len(s) - 1))
  ELSE s

DigitValue(c) ==
  CASE c = "0" -> 0 [] c = "1" -> 1 [] c = "2" -> 2 [] c = "3" -> 3
    [] c = "4" -> 4 [] c = "5" -> 5 [] c = "6" -> 6 [] c = "7" -> 7
    [] c = "8" -> 8 [] c = "9" -> 9

RECURSIVE ParseInt(_)
\* parseInt(ds, 10) of a non-empty run of decimal digits
ParseInt(ds) ==
  IF Len(ds) = 1 THEN DigitValue(ds[1])
  ELSE 10 * ParseInt(SubSeq(ds, 1, Len(ds) - 1)) + DigitValue(ds[Len(ds)])

\* the index of the last digit of the maximal digit run that starts at i
\* (i - 1 when s[i] is no digit): what a greedy \d+ consumes when the
\* pattern goes on with a non-digit
DigitRunEnd(s, i) ==
  IF i > Len(s) \/ s[i] \notin Digits THEN i - 1
  ELSE CHOOSE e \in i..Len(s) :
         /\ \A j \in i..e : s[j] \in Digits
         /\ (e = Len(s) \/ s[e + 1] \notin Digits)

\* the literal lit at index i of s
LitAt(s, i, lit) == i >= 1 /\ i + Len(lit) - 1 <= Len(s)
                    /\ SubSeq(s, i, i + Len(lit) - 1) = lit

(***************************************************************************)
(* getDiffPositions: the file pattern                                      *)
(***************************************************************************)
DIFF_GIT == <<"d","i","f","f"," ","-","-","g","i","t">>
DIFF_GIT_A == <<"d","i","f","f"," ","-","-","g","i","t"," ","a","/">>
SP_B == <<" ","b","/">>

\* One atom of the compiled pattern.  filePath.replace(/\//g, '\\/') escapes
\* the slash only, so every other character of the path is regular-expression
\* syntax: a letter, digit, '-' or '_' stands for itself, '.' for any
\* character but a line terminator.  (Paths of the model hold no other
\* metacharacter.)
AtomMatches(a, c) == IF a = "." THEN c # NL ELSE a = c

\* the source of filePattern, /^diff --git a\/<path> b\/<path>/m
FilePattern(filePath) == DIFF_GIT_A \o filePath \o SP_B \o filePath

\* the pattern matches at index i of text: '^' with the m flag is the start
\* of the text or of a line; nothing anchors the end
FilePatternAt(text, filePath, i) ==
  LET pat == FilePattern(filePath) IN
  /\ (i = 1 \/ text[i - 1] = NL)
  /\ i + Len(pat) - 1 <= Len(text)
  /\ \A k \in 1..Len(pat) :
       IF k <= Len(DIFF_GIT_A)
            \/ (k > Len(DIFF_GIT_A) + Len(filePath)
                /\ k <= Len(DIFF_GIT_A) + Len(filePath) + Len(SP_B))
         THEN text[i + k - 1] = pat[k]
         ELSE AtomMatches(pat[k], text[i + k - 1])

\* diff.match(filePattern): 0 for null, else fileMatch.index + 1
FileMatch(text, filePath) ==
  IF \E i \in 1..Len(text) : FilePatternAt(text, filePath, i)
    THEN CHOOSE i \in 1..Len(text) :
           /\ FilePatternAt(text, filePath, i)
           /\ \A j \in 1..(i - 1) : ~FilePatternAt(text, filePath, j)
    ELSE 0

\* rest.match(/^diff --git/m): 0 for null, else the match's index + 1
NextFileDiff(rest) ==
  LET at(i) == (i = 1 \/ rest[i - 1] = NL) /\ LitAt(rest, i, DIFF_GIT) IN
  IF \E i \in 1..Len(rest) : at(i)
    THEN CHOOSE i \in 1..Len(rest) : at(i) /\ \A j \in 1..(i - 1) : ~at(j)
    ELSE 0

\* fileDiff = diff.substring(fileStartIndex, fileEndIndex), for a match at
\* the 1-based fileStart
FileDiff(text, fileStart) ==
  LET rest == From(text, fileStart + 1)
      next == NextFileDiff(rest)
      \* 1-based index of the last character of the segment
      fileEnd == IF next # 0 THEN fileStart + next - 1 ELSE Len(text)
  IN SubSeq(text, fileStart, fileEnd)

(***************************************************************************)
(* getDiffPositions: the walk                                              *)
(***************************************************************************)
AT_AT == <<"@","@">>
AT_AT_MINUS == <<"@","@"," ","-">>
SP_PLUS == <<" ","+">>
SP_AT_AT == <<" ","@","@">>
INDEX == <<"i","n","d","e","x">>
DIFF == <<"d","i","f","f">>
MINUS3 == <<"-","-","-">>
PLUS3 == <<"+","+","+">>

\* /@@ -(\d+),\d+ \+(\d+),\d+ @@/ tried at index i of line: the two captures,
\* or <<>> when the pattern does not match there
HunkRegexAt(line, i) ==
  LET e1 == DigitRunEnd(line, i + 4)
      e2 == DigitRunEnd(line, e1 + 2)
      e3 == DigitRunEnd(line, e2 + 3)
      e4 == DigitRunEnd(line, e3 + 2)
  IN IF /\ LitAt(line, i, AT_AT_MINUS)
        /\ e1 >= i + 4
        /\ LitAt(line, e1 + 1, <<",">>)
        /\ e2 >= e1 + 2
        /\ LitAt(line, e2 + 1, SP_PLUS)
        /\ e3 >= e2 + 3
        /\ LitAt(line, e3 + 1, <<",">>)
        /\ e4 >= e3 + 2
        /\ LitAt(line, e4 + 1, SP_AT_AT)
       THEN <<SubSeq(line, i + 4, e1), SubSeq(line, e2 + 3, e3)>>
       ELSE <<>>

\* line.match(/@@ -(\d+),\d+ \+(\d+),\d+ @@/): the captures of the leftmost
\* match, <<>> for null
HunkRegex(line) ==
  IF \E i \in 1..Len(line) : HunkRegexAt(line, i) # <<>>
    THEN HunkRegexAt(line, CHOOSE i \in 1..Len(line) :
           /\ HunkRegexAt(line, i) # <<>>
           /\ \A j \in 1..(i - 1) : HunkRegexAt(line, j) = <<>>)
    ELSE <<>>

\* lineMap[key] = value
MapSet(m, key, value) ==
  [k \in DOMAIN m \cup {key} |-> IF k = key THEN value ELSE m[k]]

EmptyMap == [k \in {} |-> 0]

\* the state of the walk before the first line
WalkStart == [lineMap |-> EmptyMap, currentPosition |-> 0,
              leftLine |-> 0, rightLine |-> 0]

\* one iteration of `for (const line of lines)'
WalkLine(w, line) ==
  LET m == HunkRegex(line)
      moved ==
        IF StartsWith(line, AT_AT)
          THEN IF m # <<>>
                 THEN [w EXCEPT !.leftLine = ParseInt(m[1]) - 1,
                                !.rightLine = ParseInt(m[2]) - 1]
                 ELSE w
        ELSE IF StartsWith(line, <<"-">>)
          THEN [w EXCEPT !.leftLine = @ + 1]
        ELSE IF StartsWith(line, <<"+">>)
          THEN [w EXCEPT !.rightLine = @ + 1,
                         !.lineMap = MapSet(@, w.rightLine + 1, w.currentPosition)]
        ELSE IF /\ ~StartsWith(line, DIFF)
                /\ ~StartsWith(line, INDEX)
                /\ ~StartsWith(line, MINUS3)
                /\ ~StartsWith(line, PLUS3)
          THEN [w EXCEPT !.leftLine = @ + 1,
                         !.rightLine = @ + 1,
                         !.lineMap = MapSet(@, w.rightLine + 1, w.currentPosition)]
        ELSE w
  IN [moved EXCEPT !.currentPosition = @ + 1]

RECURSIVE Walk(_, _)
\* the whole loop over lines
Walk(w, ls) == IF ls = <<>> THEN w ELSE Walk(WalkLine(w, Head(ls)), Tail(ls))

\* the value getDiffPositions returns for a fetched diff text
LineMapOf(text, filePath) ==
  LET fileStart == FileMatch(text, filePath) IN
  IF fileStart = 0 THEN EmptyMap
  ELSE Walk(WalkStart, Split(FileDiff(text, fileStart))).lineMap

(***************************************************************************)
(* The diff texts GET pulls/{id} (diff media type) may return              *)
(***************************************************************************)
\* the number of file sections of a diff text
MaxSections == 2

A_JS == <<"a",".","j","s">>
A_JSX == <<"a",".","j","s","x">>
B_JS == <<"b",".","j","s">>
A_US_JS == <<"a","_","j","s">>

INDEX_LINE == <<"i","n","d","e","x"," ","1",".",".","2">>
MINUS3_A == <<"-","-","-"," ","a","/">>
PLUS3_B == <<"+","+","+"," ","b","/">>
NEW_FILE_MODE == <<"n","e","w"," ","f","i","l","e"," ","m","o","d","e"," ","1","0","0","6","4","4">>
MINUS3_DEV_NULL == <<"-","-","-"," ","/","d","e","v","/","n","u","l","l">>
SIMILARITY == <<"s","i","m","i","l","a","r","i","t","y"," ","i","n","d","e","x"," ","9","0","%">>
RENAME_FROM == <<"r","e","n","a","m","e"," ","f","r","o","m"," ">>
RENAME_TO == <<"r","e","n","a","m","e"," ","t","o"," ">>
NO_NEWLINE == <<"\\"," ","N","o"," ","n","e","w","l","i","n","e"," ","a","t"," ","e","n","d"," ","o","f"," ","f","i","l","e">>

REMOVED_X == <<"-","x">>
CONTEXT_Y == <<" ","y">>
CONTEXT_Z == <<" ","z">>
ADDED_W == <<"+","w">>
ADDED_Y == <<"+","y">>
\* a removed line whose text is `-- x', an added line whose text is `++ w'
REMOVED_DASHES == <<"-","-","-"," ","x">>
ADDED_PLUSES == <<"+","+","+"," ","w">>

\* the header of a modified file
HeaderModified(p) ==
  <<DIFF_GIT_A \o p \o SP_B \o p, INDEX_LINE, MINUS3_A \o p, PLUS3_B \o p>>

\* the header of an added file
HeaderAdded(p) ==
  <<DIFF_GIT_A \o p \o SP_B \o p, NEW_FILE_MODE, INDEX_LINE, MINUS3_DEV_NULL,
    PLUS3_B \o p>>

\* the header of a file renamed from o to n without a change of content
HeaderRenamed(o, n) ==
  <<DIFF_GIT_A \o o \o SP_B \o n, SIMILARITY, RENAME_FROM \o o, RENAME_TO \o n>>

\* the single hunk `@@ -1,3 +1,4 @@' of the documentation: one removed line,
\* two context lines, one added line
HunkExample ==
  <<<<"@","@"," ","-","1",",","3"," ","+","1",",","4"," ","@","@">>,
    REMOVED_X, CONTEXT_Y, CONTEXT_Z, ADDED_W>>

\* a hunk that starts below line 1, with the enclosing function after the @@
HunkLater ==
  <<<<"@","@"," ","-","4",",","2"," ","+","5",",","3"," ","@","@"," ","f","(",")">>,
    CONTEXT_Y, ADDED_W, CONTEXT_Z>>

\* git omits a line count of 1
HunkShort ==
  <<<<"@","@"," ","-","3"," ","+","3"," ","@","@">>, REMOVED_X, ADDED_W>>

\* two hunks, the second with two-digit line numbers
HunkPair ==
  <<<<"@","@"," ","-","1",",","2"," ","+","1",",","3"," ","@","@">>,
    CONTEXT_Y, ADDED_W, CONTEXT_Z,
    <<"@","@"," ","-","1","2",",","3"," ","+","1","3",",","2"," ","@","@">>,
    CONTEXT_Y, REMOVED_X, CONTEXT_Z>>

\* a full-form hunk followed by a short-form one
HunkThenShort ==
  <<<<"@","@"," ","-","1",",","2"," ","+","1",",","3"," ","@","@">>,
    CONTEXT_Y, ADDED_W, CONTEXT_Z,
    <<"@","@"," ","-","6"," ","+","7"," ","@","@">>,
    REMOVED_X, ADDED_Y>>

\* lines whose own text starts with -- or ++
HunkDashes ==
  <<<<"@","@"," ","-","2",",","2"," ","+","2",",","2"," ","@","@">>,
    CONTEXT_Y, REMOVED_DASHES, ADDED_PLUSES>>

\* the last line of the file changed, neither side ends with a line feed
HunkNoNewline ==
  <<<<"@","@"," ","-","2",",","1"," ","+","2",",","1"," ","@","@">>,
    REMOVED_X, NO_NEWLINE, ADDED_W, NO_NEWLINE>>

\* the hunk of an added file of two lines
HunkAdded ==
  <<<<"@","@"," ","-","0",",","0"," ","+","1",",","2"," ","@","@">>,
    ADDED_W, ADDED_Y>>

ModifiedBodies == {HunkExample, HunkLater, HunkShort, HunkPair, HunkThenShort,
                   HunkDashes, HunkNoNewline}

\* the sections a diff text is made of: the file a section is about, and its lines
Sections ==
  {[name |-> A_JS, lines |-> HeaderModified(A_JS) \o b] : b \in ModifiedBodies}
  \cup {[name |-> A_JS, lines |-> HeaderAdded(A_JS) \o HunkAdded],
        [name |-> B_JS, lines |-> HeaderModified(B_JS) \o HunkLater],
        [name |-> B_JS, lines |-> HeaderAdded(B_JS) \o HunkAdded],
        [name |-> A_US_JS, lines |-> HeaderModified(A_US_JS) \o HunkExample],
        [name |-> A_JSX, lines |-> HeaderRenamed(A_JS, A_JSX)],
        [name |-> A_JSX, lines |-> HeaderRenamed(A_JS, A_JSX)
                          \o <<INDEX_LINE, MINUS3_A \o A_JS, PLUS3_B \o A_JSX>>
                          \o HunkLater]}

RECURSIVE Flatten(_)
Flatten(ss) == IF ss = <<>> THEN <<>> ELSE Head(ss).lines \o Flatten(Tail(ss))

RECURSIVE Unlines(_)
\* every line followed by a line feed, as git writes a diff
Unlines(ls) == IF ls = <<>> THEN <<>> ELSE Head(ls) \o <<NL>> \o Unlines(Tail(ls))

\* n sections about n different files
SectionSeqs(n) ==
  {ss \in [1..n -> Sections] :
     \A i \in 1..n : \A j \in 1..n : i # j => ss[i].name # ss[j].name}

\* the diff texts of the model: up to MaxSections sections; a pull request
\* without changes has the empty text
DiffTexts ==
  UNION {{Unlines(Flatten(ss)) : ss \in SectionSeqs(n)} : n \in 0..MaxSections}

\* the paths getDiffPositions is asked about
FilePaths == {A_JS, B_JS, A_JSX}

(***************************************************************************)
(* getDiffPositions, step by step                                          *)
(***************************************************************************)
VARIABLES
  \* the environment
  diff,             \* response.data: the diff text of the pull request
  changedFiles,     \* process.env.files.split(' '), or what glob.sync gives
  reviews,          \* the reviews the hosting service has accepted
  summaries,        \* what has been written to jsdoc-summary.md, in order
  writeFailed,      \* fs.writeFileSync threw
  exitCode,         \* 1 after process.exit(1)
  inflight,         \* the external calls that have not returned yet
  \* main and processFile
  pc,               \* where main / processFile is
  fileNo,           \* the index in changedFiles of the loop of main
  stats,
  filePath,         \* the argument of processFile and of getDiffPositions
  functions,        \* what detectFunctions returned
  diffPositions,
  funcNo,           \* the index in functions of the loop of processFile
  suggestions,
  \* getDiffPositions, step by step
  gpc,              \* where getDiffPositions is: "fetch", "walk", "returned",
                    \* "caught" (returned from the catch block), "idle"
  lines,            \* fileDiff.split('\n')
  lineNo,           \* the index in lines of the line the loop is at
  lineMap, currentPosition, leftLine, rightLine,
  returned,         \* the returned map
  \* history
  calls,            \* the external calls issued so far, in order
  processed,        \* the arguments of the calls of processFile, in order
  unitsFound,       \* the number of units detectFunctions has returned
  completions       \* what generateJSDocComment returned for the units of
                    \* the file at hand, in order

\* the walk of getDiffPositions
wvars == <<gpc, lines, lineNo, lineMap, currentPosition, leftLine, rightLine,
           returned>>

\* main and processFile with their environment and history
ovars == <<changedFiles, reviews, summaries, writeFailed, exitCode, inflight,
           pc, fileNo, stats, functions, diffPositions, funcNo, suggestions,
           calls, processed, unitsFound, completions>>

vars == <<diff, filePath, wvars, ovars>>

\* let stats = {...}
StatsStart == [totalFiles |-> 0, totalFunctions |-> 0, totalSuggestions |-> 0,
               suggestedFiles |-> <<>>]

\* the walk is not running
WalkIdle ==
  /\ gpc = "idle"
  /\ lines = <<>>
  /\ lineNo = 1
  /\ lineMap = EmptyMap
  /\ currentPosition = 0
  /\ leftLine = 0
  /\ rightLine = 0
  /\ returned = EmptyMap

\* main is not running
MainIdle ==
  /\ changedFiles = <<>>
  /\ reviews = <<>>
  /\ summaries = <<>>
  /\ writeFailed = FALSE
  /\ exitCode = 0
  /\ inflight = {}
  /\ pc = "idle"
  /\ fileNo = 1
  /\ stats = StatsStart
  /\ functions = <<>>
  /\ diffPositions = EmptyMap
  /\ funcNo = 1
  /\ suggestions = <<>>
  /\ calls = <<>>
  /\ processed = <<>>
  /\ unitsFound = 0
  /\ completions = <<>>

\* the counters as one record, as WalkLine takes them
Counters == [lineMap |-> lineMap, currentPosition |-> currentPosition,
             leftLine |-> leftLine, rightLine |-> rightLine]

InitDiff ==
  /\ diff \in DiffTexts
  /\ filePath \in FilePaths
  /\ gpc = "fetch"
  /\ lines = <<>>
  /\ lineNo = 1
  /\ lineMap = EmptyMap
  /\ currentPosition = 0
  /\ leftLine = 0
  /\ rightLine = 0
  /\ returned = EmptyMap
  /\ MainIdle

\* octokit.pulls.get rejects: the catch block returns {}
FetchThrows ==
  /\ gpc = "fetch"
  /\ gpc' = "caught"
  /\ returned' = EmptyMap
  /\ UNCHANGED <<diff, filePath, lines, lineNo, lineMap, currentPosition,
                 leftLine, rightLine, ovars>>

\* if (!fileMatch) return {}
NoFileMatch ==
  /\ gpc = "fetch"
  /\ FileMatch(diff, filePath) = 0
  /\ gpc' = "returned"
  /\ returned' = EmptyMap
  /\ UNCHANGED <<diff, filePath, lines, lineNo, lineMap, currentPosition,
                 leftLine, rightLine, ovars>>

\* the segment of the file is cut out and split into lines
SplitFileDiff ==
  /\ gpc = "fetch"
  /\ FileMatch(diff, filePath) # 0
  /\ lines' = Split(FileDiff(diff, FileMatch(diff, filePath)))
  /\ lineNo' = 1
  /\ lineMap' = WalkStart.lineMap
  /\ currentPosition' = WalkStart.currentPosition
  /\ leftLine' = WalkStart.leftLine
  /\ rightLine' = WalkStart.rightLine
  /\ gpc' = "walk"
  /\ UNCHANGED <<diff, filePath, returned, ovars>>

\* one iteration of the loop
ForLine ==
  /\ gpc = "walk"
  /\ lineNo <= Len(lines)
  /\ LET w == WalkLine(Counters, lines[lineNo]) IN
       /\ lineMap' = w.lineMap
       /\ currentPosition' = w.currentPosition
       /\ leftLine' = w.leftLine
       /\ rightLine' = w.rightLine
  /\ lineNo' = lineNo + 1
  /\ UNCHANGED <<diff, filePath, gpc, lines, returned, ovars>>

\* return lineMap
ReturnLineMap ==
  /\ gpc = "walk"
  /\ lineNo > Len(lines)
  /\ gpc' = "returned"
  /\ returned' = lineMap
  /\ UNCHANGED <<diff, filePath, lines, lineNo, lineMap, currentPosition,
                 leftLine, rightLine, ovars>>

NextDiff ==
  \/ FetchThrows
  \/ NoFileMatch
  \/ SplitFileDiff
  \/ ForLine
  \/ ReturnLineMap

SpecDiff == InitDiff /\ [][NextDiff]_vars

(***************************************************************************)
(* main and processFile                                                    *)
(***************************************************************************)
\* the number of entries of the file list
MaxFiles == 2
\* the number of units detectFunctions returns for one file
MaxUnits == 2
\* the greatest line a unit starts at
MaxLine == 3

\* the entries of the file list: split(' ') gives an empty entry for two
\* spaces in a row, and a last entry that ends with the line feed of the
\* variable
FileEntries == {<<>>, A_JS, B_JS, B_JS \o <<NL>>}

ChangedFileLists == UNION {[1..n -> FileEntries] : n \in 0..MaxFiles}

\* the diff of the pull request: a.js modified; b.js and a.js modified;
\* a_js modified
PullRequestDiffs ==
  {Unlines(HeaderModified(A_JS) \o HunkExample),
   Unlines(HeaderModified(B_JS) \o HunkLater \o HeaderModified(A_JS) \o HunkPair),
   Unlines(HeaderModified(A_US_JS) \o HunkExample)}

\* what detectFunctions may return: the units in the order of the traversal,
\* which is the order of the source.  The name of a unit stands for the unit.
UnitLists ==
  UNION {{[k \in 1..n |-> [name |-> k, startLine |-> ls[k]]] :
            ls \in {l \in [1..n -> 1..MaxLine] :
                      \A i \in 1..n : \A j \in i..n : l[i] <= l[j]}} :
         n \in 0..MaxUnits}

\* response.choices[0].message.content
Contents == {<<" ">>, <<"\n","/","*","*"," ","*","/","\n">>}

\* what generateJSDocComment returns: null from the catch block, or the
\* trimmed content
Null == [null |-> TRUE, text |-> <<>>]
Text(t) == [null |-> FALSE, text |-> t]

\* if (jsdocComment): null and the empty string are falsy
Truthy(jsdocComment) == ~jsdocComment.null /\ jsdocComment.text # <<>>

\* diffPositions[func.startLine]
Undefined == [undefined |-> TRUE, value |-> 0]
PositionOf(positions, startLine) ==
  IF startLine \in DOMAIN positions
    THEN [undefined |-> FALSE, value |-> positions[startLine]]
    ELSE Undefined

\* if (suggestions.length > 0) left out: a review is submitted whatever the
\* suggestion list holds
AlwaysSubmit(ss) == TRUE

\* if (suggestions.length > 0)
ShouldSubmit(ss) == Len(ss) > 0

\* suggestions.map(...): one comment per suggestion
Comments(ss) ==
  [i \in 1..Len(ss) |-> [path |-> ss[i].filePath, position |-> ss[i].position,
                         body |-> ss[i].jsdocComment]]

Call(kind, unit) == [kind |-> kind, file |-> fileNo, unit |-> unit]

InitMain ==
  /\ diff \in PullRequestDiffs
  /\ changedFiles \in ChangedFileLists
  /\ reviews = <<>>
  /\ summaries = <<>>
  /\ writeFailed = FALSE
  /\ exitCode = 0
  /\ inflight = {}
  /\ pc = "main"
  /\ fileNo = 1
  /\ stats = StatsStart
  /\ filePath = <<>>
  /\ functions = <<>>
  /\ diffPositions = EmptyMap
  /\ funcNo = 1
  /\ suggestions = <<>>
  /\ calls = <<>>
  /\ processed = <<>>
  /\ unitsFound = 0
  /\ completions = <<>>
  /\ WalkIdle

env == <<diff, changedFiles>>
locals == <<filePath, functions, diffPositions, funcNo, suggestions, completions>>

\* processFile returns: its locals are gone, the loop of main goes on
Return ==
  /\ pc' = "loop"
  /\ fileNo' = fileNo + 1
  /\ filePath' = <<>>
  /\ functions' = <<>>
  /\ diffPositions' = EmptyMap
  /\ funcNo' = 1
  /\ suggestions' = <<>>
  /\ completions' = <<>>

\* if (changedFiles.length === 0) return
MainNoFiles ==
  /\ pc = "main"
  /\ Len(changedFiles) = 0
  /\ pc' = "done"
  /\ UNCHANGED <<env, wvars, locals, reviews, summaries, writeFailed, exitCode,
                 inflight, fileNo, stats, calls, processed, unitsFound>>

\* stats.totalFiles = changedFiles.length
MainStart ==
  /\ pc = "main"
  /\ Len(changedFiles) # 0
  /\ stats' = [stats EXCEPT !.totalFiles = Len(changedFiles)]
  /\ pc' = "loop"
  /\ UNCHANGED <<env, wvars, locals, reviews, summaries, writeFailed, exitCode,
                 inflight, fileNo, calls, processed, unitsFound>>

\* if (file.trim()) is false
SkipBlank ==
  /\ pc = "loop"
  /\ fileNo <= Len(changedFiles)
  /\ Trim(changedFiles[fileNo]) = <<>>
  /\ fileNo' = fileNo + 1
  /\ UNCHANGED <<env, wvars, locals, reviews, summaries, writeFailed, exitCode,
                 inflight, pc, stats, calls, processed, unitsFound>>

\* await processFile(file.trim())
CallProcessFile ==
  /\ pc = "loop"
  /\ fileNo <= Len(changedFiles)
  /\ Trim(changedFiles[fileNo]) # <<>>
  /\ filePath' = Trim(changedFiles[fileNo])
  /\ processed' = Append(processed, Trim(changedFiles[fileNo]))
  /\ pc' = "scan"
  /\ UNCHANGED <<env, wvars, reviews, summaries, writeFailed, exitCode, inflight,
                 fileNo, stats, functions, diffPositions, funcNo, suggestions,
                 completions, calls, unitsFound>>

\* detectFunctions cannot read or parse the file: its catch block returns [],
\* and processFile returns
ParseFailure ==
  /\ pc = "scan"
  /\ Return
  /\ UNCHANGED <<env, wvars, reviews, summaries, writeFailed, exitCode, inflight,
                 stats, calls, processed, unitsFound>>

\* detectFunctions finds no unit without a comment: processFile returns
DetectNone ==
  /\ pc = "scan"
  /\ <<>> \in UnitLists
  /\ Return
  /\ UNCHANGED <<env, wvars, reviews, summaries, writeFailed, exitCode, inflight,
                 stats, calls, processed, unitsFound>>

\* detectFunctions returns units; getDiffPositions sends its request
DetectSome ==
  /\ pc = "scan"
  /\ \E units \in UnitLists :
       /\ Len(units) # 0
       /\ functions' = units
       /\ unitsFound' = unitsFound + Len(units)
  /\ inflight' = inflight \cup {Call("diff", 0)}
  /\ calls' = Append(calls, Call("diff", 0))
  /\ pc' = "fetch"
  /\ UNCHANGED <<env, wvars, reviews, summaries, writeFailed, exitCode, fileNo,
                 stats, filePath, diffPositions, funcNo, suggestions, completions,
                 processed>>

\* the diff arrives: getDiffPositions returns the map of the file
DiffFetched ==
  /\ pc = "fetch"
  /\ Call("diff", 0) \in inflight
  /\ inflight' = inflight \ {Call("diff", 0)}
  /\ diffPositions' = LineMapOf(diff, filePath)
  /\ suggestions' = <<>>
  /\ funcNo' = 1
  /\ pc' = "gen"
  /\ UNCHANGED <<env, wvars, reviews, summaries, writeFailed, exitCode, fileNo,
                 stats, filePath, functions, completions, calls, processed,
                 unitsFound>>

\* the request for the diff fails: getDiffPositions returns {}
DiffFetchFails ==
  /\ pc = "fetch"
  /\ Call("diff", 0) \in inflight
  /\ inflight' = inflight \ {Call("diff", 0)}
  /\ diffPositions' = EmptyMap
  /\ suggestions' = <<>>
  /\ funcNo' = 1
  /\ pc' = "gen"
  /\ UNCHANGED <<env, wvars, reviews, summaries, writeFailed, exitCode, fileNo,
                 stats, filePath, functions, completions, calls, processed,
                 unitsFound>>

\* generateJSDocComment sends its request for the unit at hand
RequestCompletion ==
  /\ pc = "gen"
  /\ funcNo <= Len(functions)
  /\ inflight' = inflight \cup {Call("completion", funcNo)}
  /\ calls' = Append(calls, Call("completion", funcNo))
  /\ pc' = "await_gen"
  /\ UNCHANGED <<env, wvars, locals, reviews, summaries, writeFailed, exitCode,
                 fileNo, stats, processed, unitsFound>>

\* the rest of the loop body, once generateJSDocComment has returned
AfterCompletion(jsdocComment) ==
  LET func == functions[funcNo]
      position == PositionOf(diffPositions, func.startLine)
  IN
  /\ inflight' = inflight \ {Call("completion", funcNo)}
  /\ completions' = Append(completions, jsdocComment)
  /\ IF Truthy(jsdocComment) /\ ~position.undefined
       THEN /\ suggestions' = Append(suggestions,
                 [filePath |-> filePath, position |-> position.value,
                  jsdocComment |-> jsdocComment.text, functionName |-> func.name])
            /\ stats' = [stats EXCEPT !.totalSuggestions = @ + 1]
       ELSE UNCHANGED <<suggestions, stats>>
  /\ funcNo' = funcNo + 1
  /\ pc' = "gen"
  /\ UNCHANGED <<env, wvars, reviews, summaries, writeFailed, exitCode, fileNo,
                 filePath, functions, diffPositions, calls, processed, unitsFound>>

\* the completion arrives and is trimmed
CompletionReturns ==
  /\ pc = "await_gen"
  /\ Call("completion", funcNo) \in inflight
  /\ \E content \in Contents : AfterCompletion(Text(Trim(content)))

\* the request fails: generateJSDocComment returns null
CompletionFails ==
  /\ pc = "await_gen"
  /\ Call("completion", funcNo) \in inflight
  /\ AfterCompletion(Null)

\* the loop over the units is done: submitPRReview sends the review
SubmitReview ==
  /\ pc = "gen"
  /\ funcNo > Len(functions)
  /\ ShouldSubmit(suggestions)
  /\ inflight' = inflight \cup {Call("review", 0)}
  /\ calls' = Append(calls, Call("review", 0))
  /\ pc' = "await_review"
  /\ UNCHANGED <<env, wvars, locals, reviews, summaries, writeFailed, exitCode,
                 fileNo, stats, processed, unitsFound>>

\* the loop over the units is done, without a suggestion
ReturnNoSuggestions ==
  /\ pc = "gen"
  /\ funcNo > Len(functions)
  /\ ~ShouldSubmit(suggestions)
  /\ Return
  /\ UNCHANGED <<env, wvars, reviews, summaries, writeFailed, exitCode, inflight,
                 stats, calls, processed, unitsFound>>

\* stats.suggestedFiles.push(...) and return, after submitPRReview
CountFile ==
  /\ stats' = [stats EXCEPT !.suggestedFiles =
                 Append(@, [path |-> filePath, suggestionsCount |-> Len(suggestions)])]
  /\ Return

\* createReview resolves
ReviewAccepted ==
  /\ pc = "await_review"
  /\ Call("review", 0) \in inflight
  /\ inflight' = inflight \ {Call("review", 0)}
  /\ reviews' = Append(reviews, Comments(suggestions))
  /\ CountFile
  /\ UNCHANGED <<env, wvars, summaries, writeFailed, exitCode, calls, processed,
                 unitsFound>>

\* createReview rejects and submitPRReview does not catch the rejection: it
\* reaches the catch block of main, which exits with 1
ReviewRejectedExits ==
  /\ pc = "await_review"
  /\ Call("review", 0) \in inflight
  /\ inflight' = inflight \ {Call("review", 0)}
  /\ exitCode' = 1
  /\ pc' = "exited"
  /\ UNCHANGED <<env, wvars, locals, reviews, summaries, writeFailed, fileNo,
                 stats, calls, processed, unitsFound>>

\* createReview rejects: the catch block of submitPRReview logs the error
ReviewRejected ==
  /\ pc = "await_review"
  /\ Call("review", 0) \in inflight
  /\ inflight' = inflight \ {Call("review", 0)}
  /\ CountFile
  /\ UNCHANGED <<env, wvars, reviews, summaries, writeFailed, exitCode, calls,
                 processed, unitsFound>>

\* fs.writeFileSync('jsdoc-summary.md', summary)
WriteSummary ==
  /\ pc = "loop"
  /\ fileNo > Len(changedFiles)
  /\ summaries' = Append(summaries, stats)
  /\ pc' = "done"
  /\ UNCHANGED <<env, wvars, locals, reviews, writeFailed, exitCode, inflight,
                 fileNo, stats, calls, processed, unitsFound>>

\* fs.writeFileSync throws: the catch block of main exits with 1
WriteSummaryThrows ==
  /\ pc = "loop"
  /\ fileNo > Len(changedFiles)
  /\ writeFailed' = TRUE
  /\ exitCode' = 1
  /\ pc' = "exited"
  /\ UNCHANGED <<env, wvars, locals, reviews, summaries, inflight, fileNo, stats,
                 calls, processed, unitsFound>>

Init == InitMain

Next ==
  \/ MainNoFiles
  \/ MainStart
  \/ SkipBlank
  \/ CallProcessFile
  \/ ParseFailure
  \/ DetectNone
  \/ DetectSome
  \/ DiffFetchFails
  \/ DiffFetched
  \/ RequestCompletion
  \/ CompletionReturns
  \/ CompletionFails
  \/ SubmitReview
  \/ ReturnNoSuggestions
  \/ ReviewAccepted
  \/ ReviewRejected
  \/ WriteSummary
  \/ WriteSummaryThrows

Spec == Init /\ [][Next]_vars

\* main is one sequential control flow that runs to its end, and every
\* external call returns or fails
FairSpec == Spec /\ WF_vars(Next)

(***************************************************************************)
(* The unified diff format, as the claims about getDiffPositions read it   *)
(***************************************************************************)
\* `@@ -a[,b] +c[,d] @@' at the start of a line: <<a, c>>, or <<>> when the
\* line is no hunk header.  A count of 1 may be left out.
HunkStarts(line) ==
  LET e1 == DigitRunEnd(line, 5)
      e2 == IF LitAt(line, e1 + 1, <<",">>) THEN DigitRunEnd(line, e1 + 2) ELSE e1
      e3 == DigitRunEnd(line, e2 + 3)
      e4 == IF LitAt(line, e3 + 1, <<",">>) THEN DigitRunEnd(line, e3 + 2) ELSE e3
  IN IF /\ LitAt(line, 1, AT_AT_MINUS)
        /\ e1 >= 5
        /\ (e2 > e1 => e2 >= e1 + 2)
        /\ LitAt(line, e2 + 1, SP_PLUS)
        /\ e3 >= e2 + 3
        /\ (e4 > e3 => e4 >= e3 + 2)
        /\ LitAt(line, e4 + 1, SP_AT_AT)
       THEN <<ParseInt(SubSeq(line, 5, e1)), ParseInt(SubSeq(line, e2 + 3, e3))>>
       ELSE <<>>

\* a file-header line, by its prefix
IsFileHeader(line) ==
  \/ StartsWith(line, DIFF)
  \/ StartsWith(line, INDEX)
  \/ StartsWith(line, MINUS3)
  \/ StartsWith(line, PLUS3)

RECURSIVE HunkKeys(_, _, _)
\* the new-file line numbers of the context and added lines of the hunks of
\* a segment ls; seen: a hunk header came before; next: the new-file number
\* of the next context or added line
HunkKeys(ls, seen, next) ==
  IF ls = <<>> THEN {}
  ELSE LET l == Head(ls) IN
    IF HunkStarts(l) # <<>> THEN HunkKeys(Tail(ls), TRUE, HunkStarts(l)[2])
    ELSE IF seen /\ (StartsWith(l, <<" ">>) \/ StartsWith(l, <<"+">>))
      THEN {next} \cup HunkKeys(Tail(ls), seen, next + 1)
    ELSE HunkKeys(Tail(ls), seen, next)

\* the line `diff --git a/<path> b/<path>'
FileHeaderLine(path) == DIFF_GIT_A \o path \o SP_B \o path

\* the index in Split(text) of the first header line of path, 0 if none
HeaderIndex(text, path) ==
  LET all == Split(text) IN
  IF \E i \in 1..Len(all) : all[i] = FileHeaderLine(path)
    THEN CHOOSE i \in 1..Len(all) :
           all[i] = FileHeaderLine(path)
           /\ \A j \in 1..(i - 1) : all[j] # FileHeaderLine(path)
    ELSE 0

\* the lines of the segment of path: from its header line up to, but
\* excluding, the next line that begins with `diff --git', or to the end of
\* the text; as split('\n') gives them, so with an empty last element when
\* the segment ends with a line feed
SegmentLines(text, path) ==
  LET all == Split(text)
      i == HeaderIndex(text, path)
      nexts == {j \in (i + 1)..Len(all) : StartsWith(all[j], DIFF_GIT)}
  IN IF i = 0 THEN <<>>
     ELSE IF nexts = {} THEN SubSeq(all, i, Len(all))
     ELSE LET j == CHOOSE k \in nexts : \A m \in nexts : k <= m
          IN SubSeq(all, i, j - 1) \o <<<<>>>>

\* the loop is about to take the line lines[lineNo]
AtLine == gpc = "walk" /\ lineNo <= Len(lines)

(***************************************************************************)
(* Claims about getDiffPositions (specification SpecDiff)                  *)
(***************************************************************************)
\* C1: the keys of the returned map are exactly the new-file line numbers of
\* the context and added lines inside the hunks of the file's segment: no
\* key comes from a removed line, a file-header line or a line before the
\* first hunk header, and none is missing.
C1_KeysAreHunkLines ==
  gpc = "returned" => DOMAIN returned = HunkKeys(SegmentLines(diff, filePath), FALSE, 0)

\* the walked segment holds the single hunk `@@ -1,3 +1,4 @@' of one removed
\* line, two context lines and one added line, after h - 1 file-header lines
SingleExampleHunkAt(h) ==
  /\ h + 4 <= Len(lines)
  /\ SubSeq(lines, h, h + 4) = HunkExample
  /\ \A i \in 1..(h - 1) : ~StartsWith(lines[i], AT_AT)
  /\ \A i \in (h + 5)..Len(lines) : lines[i] = <<>>

\* C2: positions count from the hunk header as position 0: in the example
\* the removed line has position 1, the context lines (new lines 1 and 2)
\* positions 2 and 3, the added line (new line 3) position 4, however many
\* file-header lines precede the hunk header.
C2_PositionsFromHunkHeader ==
  \A h \in 1..Len(lines) :
    (gpc = "returned" /\ SingleExampleHunkAt(h)) =>
      /\ {1, 2, 3} \subseteq DOMAIN returned
      /\ returned[1] = 2
      /\ returned[2] = 3
      /\ returned[3] = 4

\* C6: without a line `diff --git a/<filePath> b/<filePath>' in the diff the
\* returned map is empty, as it is when the diff fetch throws; with one, the
\* walked segment runs from that line
\* up to, but excluding, the next line beginning with `diff --git', or to
\* the end of the diff.
C6_EmptyWithoutHeaderLine ==
  /\ gpc = "caught" => returned = EmptyMap
  /\ (gpc = "returned" /\ HeaderIndex(diff, filePath) = 0) => returned = EmptyMap
  /\ (gpc \in {"walk", "returned"} /\ HeaderIndex(diff, filePath) # 0)
       => lines = SegmentLines(diff, filePath)

\* C9: a file-header line (diff, index, ---, +++) leaves leftLine and
\* rightLine unchanged and records no map entry; every line of the segment
\* adds exactly one to currentPosition.
C9_HeaderLinesOnlyCountPosition ==
  [][AtLine =>
       /\ currentPosition' = currentPosition + 1
       /\ IsFileHeader(lines[lineNo]) =>
            /\ leftLine' = leftLine
            /\ rightLine' = rightLine
            /\ lineMap' = lineMap]_vars

\* C10: right after a hunk header with old start a and new start c,
\* leftLine = a - 1 and rightLine = c - 1, for every hunk of the segment and
\* for the short header form `@@ -a +c @@' as well.
C10_HunkHeaderSetsCounters ==
  [][(AtLine /\ HunkStarts(lines[lineNo]) # <<>>) =>
       /\ leftLine' = HunkStarts(lines[lineNo])[1] - 1
       /\ rightLine' = HunkStarts(lines[lineNo])[2] - 1]_vars

(***************************************************************************)
(* Claims about main and processFile (specifications Spec and FairSpec)    *)
(***************************************************************************)
\* processFile is past the diff fetch: functions, diffPositions, suggestions
\* and completions are those of the file at hand
InFile == pc \in {"gen", "await_gen", "await_review"}

\* the units generateJSDocComment has returned for
Handled == 1..Len(completions)

\* a suggestion was produced for unit k
Suggested(k) ==
  \E i \in 1..Len(suggestions) : suggestions[i].functionName = functions[k].name

\* the completion call returned text: not the failure marker, and not the
\* empty string either, which is no text
ReturnedText(c) == ~c.null /\ c.text # <<>>

ReviewCalls == {j \in 1..Len(calls) : calls[j].kind = "review"}
ReviewsInFlight == {c \in inflight : c.kind = "review"}

\* C3: a suggestion is produced for a unit if and only if the completion
\* call returned text and the unit's startLine is a key of the file's map,
\* and its position is then map[startLine]; a file absent from the diff, or
\* a failed diff fetch, yields no suggestion, no review submission and no
\* entry in suggestedFiles; a failed completion skips only its unit.
C3_SuggestionIffTextAndPosition ==
  /\ Len(stats.suggestedFiles) = Cardinality(ReviewCalls) - Cardinality(ReviewsInFlight)
  /\ InFile =>
       /\ \A k \in Handled :
            Suggested(k) <=> /\ ReturnedText(completions[k])
                             /\ functions[k].startLine \in DOMAIN diffPositions
       /\ \A i \in 1..Len(suggestions) : \E k \in Handled :
            /\ suggestions[i].functionName = functions[k].name
            /\ functions[k].startLine \in DOMAIN diffPositions
            /\ suggestions[i].position = diffPositions[functions[k].startLine]
       /\ (HeaderIndex(diff, filePath) = 0 \/ diffPositions = EmptyMap) =>
            /\ suggestions = <<>>
            /\ \A j \in ReviewCalls : calls[j].file # fileNo

RECURSIVE CommentCount(_)
\* the number of comments of the accepted reviews rs
CommentCount(rs) == IF rs = <<>> THEN 0 ELSE Len(Head(rs)) + CommentCount(Tail(rs))

\* C4: the written summary counts the comments of the reviews whose
\* submission succeeded: a file whose review was rejected adds nothing to
\* totalSuggestions and is not listed in suggestedFiles.
C4_SummaryCountsPublished ==
  \A i \in 1..Len(summaries) :
    /\ summaries[i].totalSuggestions = CommentCount(reviews)
    /\ summaries[i].suggestedFiles =
         [j \in 1..Len(reviews) |->
            [path |-> reviews[j][1].path, suggestionsCount |-> Len(reviews[j])]]

RECURSIVE NonBlank(_)
\* the trimmed entries of the file list that are not blank, in list order
NonBlank(files) ==
  IF files = <<>> THEN <<>>
  ELSE IF Trim(Head(files)) = <<>> THEN NonBlank(Tail(files))
  ELSE <<Trim(Head(files))>> \o NonBlank(Tail(files))

IsPrefix(s, t) == Len(s) <= Len(t) /\ SubSeq(t, 1, Len(s)) = s

\* C5: whatever fails of parsing, the diff fetch, the completions and the
\* review submissions, processFile is called exactly once for every
\* non-blank entry, in list order, and for a non-empty list the run ends
\* with the summary written exactly once, after the last file, and without a
\* non-zero exit (unless writing the summary itself fails).
C5_FailuresAreIsolated ==
  /\ [](IsPrefix(processed, NonBlank(changedFiles)))
  /\ [](Len(summaries) <= 1)
  /\ [](Len(summaries) = 1 => processed = NonBlank(changedFiles))
  /\ [](exitCode # 0 => writeFailed)
  /\ (changedFiles # <<>>) =>
       <>(/\ processed = NonBlank(changedFiles)
          /\ \/ writeFailed
             \/ pc = "done" /\ Len(summaries) = 1 /\ exitCode = 0)

\* two files were processed, a review was rejected, and the summary is written
C5_Witness ==
  /\ pc = "done"
  /\ Len(summaries) = 1
  /\ Len(processed) = 2
  /\ Len(stats.suggestedFiles) = 2
  /\ Len(reviews) = 1

\* C7: the written totalFunctions is the number of units detectFunctions
\* returned, summed over the processed files.
C7_TotalFunctionsCountsUnits ==
  \A i \in 1..Len(summaries) : summaries[i].totalFunctions = unitsFound

\* C8: at most one external call is outstanding; files go in list order;
\* for a file the calls are one diff fetch after the scan, then the
\* completion requests one at a time in the order of the units, then at most
\* one review, sent after the last completion has returned and with a
\* non-empty suggestion list.
C8_OneCallAtATime ==
  /\ Cardinality(inflight) <= 1
  /\ \A c \in inflight : c = calls[Len(calls)] /\ c.file = fileNo
  /\ \A j \in 1..Len(calls) :
       LET c == calls[j] IN
       /\ c.kind = "diff" => (j = 1 \/ calls[j - 1].file < c.file)
       /\ c.kind = "completion" =>
            /\ j > 1
            /\ calls[j - 1].file = c.file
            /\ \/ c.unit = 1 /\ calls[j - 1].kind = "diff"
               \/ calls[j - 1].kind = "completion" /\ calls[j - 1].unit = c.unit - 1
       /\ c.kind = "review" =>
            /\ j > 1
            /\ calls[j - 1].file = c.file
            /\ calls[j - 1].kind = "completion"
  /\ \A c \in inflight :
       /\ c.kind = "diff" => functions # <<>> /\ completions = <<>>
       /\ c.kind = "completion" => c.unit = funcNo /\ Len(completions) = funcNo - 1
       /\ c.kind = "review" =>
            /\ Len(completions) = Len(functions)
            /\ calls[Len(calls) - 1].unit = Len(functions)
            /\ suggestions # <<>>

\* the review of the second file is outstanding, after the diff fetch, two
\* completions and the review of the first file, and the diff fetch and two
\* completions of the second
C8_Witness ==
  /\ inflight = {[kind |-> "review", file |-> 2, unit |-> 0]}
  /\ Len(calls) = 8

====
